---- MODULE Spec2Model ----
(***************************************************************************)
(* Model of fbi_crime_data_decoder.py, the ASR master file decoder.        *)
(*                                                                         *)
(* A Python str is modelled as a sequence of one-character strings.  The   *)
(* character U+00B2 (SUPERSCRIPT TWO) is written "U+00B2": it stands for   *)
(* the characters for which str.isdigit() is true and int() fails.         *)
(***************************************************************************)
EXTENDS Integers, Sequences, FiniteSets, TLC

VARIABLES pc, s, line, a, b, out, loc, rec, start, k, reads,
          fh, idx, detail_rows, header_rows, total_lines, calls

vars == <<pc, s, line, a, b, out, loc, rec, start, k, reads,
          fh, idx, detail_rows, header_rows, total_lines, calls>>

parseVars == <<loc, rec, start, k, reads>>
fileVars == <<fh, idx, detail_rows, header_rows, total_lines, calls>>

(* ------------------ configuration (lines 23-24) ------------------------ *)

RECORD_LENGTH == 564

HEADER_OFFENSE_CODE == <<"0", "0", "0">>

(* ------------------ bounds of the model -------------------------------- *)

\* longest argument given to safe_int in SpecSafeInt
MaxLen == 4
\* longest line, and largest bound b, given to slice1 in SpecSlice
MaxSliceLen == 4
\* most lines in the input file of Spec
MaxLines == 3

(* ------------------ Python built-ins ----------------------------------- *)

SUP2 == "U+00B2"
NL == "\n"

DecimalDigits == {"0", "1", "2", "3", "4", "5", "6", "7", "8", "9"}

DigitVal(ch) ==
    CASE ch = "0" -> 0 [] ch = "1" -> 1 [] ch = "2" -> 2 [] ch = "3" -> 3
      [] ch = "4" -> 4 [] ch = "5" -> 5 [] ch = "6" -> 6 [] ch = "7" -> 7
      [] ch = "8" -> 8 [] ch = "9" -> 9

\* str.isdigit() of one character: the decimal digits and the digit-like
\* characters such as superscripts
isdigit(ch) == ch \in DecimalDigits \cup {SUP2}

Min(x, y) == IF x < y THEN x ELSE y
Max(x, y) == IF x > y THEN x ELSE y

Spaces(n) == [j \in 1..n |-> " "]

\* str.ljust(n): right-padded with spaces to length n, unchanged when longer
ljust(t, n) == IF Len(t) >= n THEN t ELSE t \o Spaces(n - Len(t))

\* t[lo:hi] for 0 <= lo: the characters at 0-indexed lo .. hi-1 that exist
PySlice(t, lo, hi) == SubSeq(t, lo + 1, Min(hi, Len(t)))

\* the number of leading characters of t that are in chars
LeadingIn(t, chars) ==
    CHOOSE n \in 0..Len(t) :
        /\ n = Len(t) \/ t[n + 1] \notin chars
        /\ \A j \in 1..n : t[j] \in chars

\* the number of trailing characters of t that are in chars
TrailingIn(t, chars) ==
    CHOOSE n \in 0..Len(t) :
        /\ n = Len(t) \/ t[Len(t) - n] \notin chars
        /\ \A j \in (Len(t) - n + 1)..Len(t) : t[j] \in chars

\* the whitespace characters of the model's alphabet
Whitespace == {" ", NL}

lstrip(t) == SubSeq(t, LeadingIn(t, Whitespace) + 1, Len(t))

rstrip(t) == SubSeq(t, 1, Len(t) - TrailingIn(t, Whitespace))

\* str.strip()
strip(t) == lstrip(rstrip(t))

\* str.rstrip(chars): trailing characters that are in chars are removed
rstrip_chars(t, chars) == SubSeq(t, 1, Len(t) - TrailingIn(t, chars))

\* ''.join(ch for ch in t if ch.isdigit())
RECURSIVE FilterDigits(_)
FilterDigits(t) ==
    IF t = <<>> THEN <<>>
    ELSE IF isdigit(Head(t)) THEN <<Head(t)>> \o FilterDigits(Tail(t))
    ELSE FilterDigits(Tail(t))

\* value of a sequence of decimal digits and underscores, underscores skipped
RECURSIVE DecValue(_)
DecValue(t) ==
    IF t = <<>> THEN 0
    ELSE IF t[Len(t)] = "_" THEN DecValue(SubSeq(t, 1, Len(t) - 1))
    ELSE 10 * DecValue(SubSeq(t, 1, Len(t) - 1)) + DigitVal(t[Len(t)])

\* the digit part of an int() literal: decimal digits, single underscores
\* only between two digits
IsDigitPart(t) ==
    /\ t # <<>>
    /\ \A j \in 1..Len(t) :
          \/ t[j] \in DecimalDigits
          \/ /\ t[j] = "_"
             /\ 1 < j /\ j < Len(t)
             /\ t[j - 1] \in DecimalDigits /\ t[j + 1] \in DecimalDigits

\* int(t): surrounding whitespace ignored, one optional sign, then the digit
\* part; anything else raises ValueError
int(t) ==
    LET u == strip(t)
        signed == u # <<>> /\ Head(u) \in {"+", "-"}
        body == IF signed THEN Tail(u) ELSE u
        mag == DecValue(body)
    IN IF IsDigitPart(body)
       THEN [raised |-> FALSE,
             val |-> IF signed /\ Head(u) = "-" THEN 0 - mag ELSE mag]
       ELSE [raised |-> TRUE, val |-> 0]

(* ------------------ Helpers (lines 31-47) ------------------------------ *)

\* slice1 without the padding of lines 33-35
slice1_unpadded(t, x, y) == PySlice(t, x - 1, y)

slice1(t, x, y) ==
    LET padded == IF Len(t) < y THEN ljust(t, y) ELSE t
    IN PySlice(padded, x - 1, y)

\* safe_int that always takes the digit-filter path
safe_int_filter_first(t) ==
    LET filtered == FilterDigits(strip(t))
    IN IF filtered # <<>> THEN int(filtered) ELSE [raised |-> FALSE, val |-> 0]

safe_int(t) ==
    LET u == strip(t)
        filtered == FilterDigits(u)
    IN IF u = <<>> THEN [raised |-> FALSE, val |-> 0]
       ELSE IF ~int(u).raised THEN int(u)
       ELSE IF filtered # <<>> THEN int(filtered)
       ELSE [raised |-> FALSE, val |-> 0]

(* ------------------ Parsers (lines 51-115) ----------------------------- *)

\* rec[key] = v
SetItem(d, key, v) == [x \in DOMAIN d \cup {key} |-> IF x = key THEN v ELSE d[x]]

\* rec = {}
EmptyDict == [x \in {} |-> 0]

\* the frame of a running parser: the dict under construction, the running
\* offset of the group loops, the (a, b) of every slice1 call so far, and
\* whether an exception is propagating
Frame(r, st, rd, ex) == [rec |-> r, start |-> st, reads |-> rd, raised |-> ex]

\* rec[name] = slice1(line, a, b), with .strip() when trim
AssignField(fr, l, f) ==
    LET val == slice1(l, f.a, f.b)
    IN [fr EXCEPT !.rec = SetItem(fr.rec, f.name, IF f.trim THEN strip(val) ELSE val),
                  !.reads = Append(fr.reads, <<f.a, f.b>>)]

RECURSIVE AssignFields(_, _, _)
AssignFields(fr, l, fs) ==
    IF fs = <<>> THEN fr
    ELSE AssignFields(AssignField(fr, l, Head(fs)), l, Tail(fs))

Field(n, x, y, t) == [name |-> n, a |-> x, b |-> y, trim |-> t]

\* the assignments of lines 56-67
DetailFields ==
    << Field("identifier", 1, 1, FALSE),
       Field("state_code", 2, 3, FALSE),
       Field("ori_code", 4, 10, TRUE),
       Field("group", 11, 12, FALSE),
       Field("division", 13, 13, FALSE),
       Field("year", 14, 15, FALSE),
       Field("msa", 16, 18, TRUE),
       Field("card1_indicator_adult_male", 19, 19, FALSE),
       Field("card2_indicator_adult_female", 20, 20, FALSE),
       Field("card3_indicator_juvenile", 21, 21, FALSE),
       Field("adjustment", 22, 22, FALSE),
       Field("offense_code", 23, 25, FALSE) >>

\* the header assignments with the MSA code of the detail layout added
HeaderFields_with_msa ==
    << Field("identifier", 1, 1, FALSE),
       Field("state_code", 2, 3, FALSE),
       Field("ori_code", 4, 10, TRUE),
       Field("group", 11, 12, FALSE),
       Field("division", 13, 13, FALSE),
       Field("year", 14, 15, FALSE),
       Field("msa", 16, 18, TRUE) >>

\* the assignments of lines 108-113
HeaderFields ==
    << Field("identifier", 1, 1, FALSE),
       Field("state_code", 2, 3, FALSE),
       Field("ori_code", 4, 10, TRUE),
       Field("group", 11, 12, FALSE),
       Field("division", 13, 13, FALSE),
       Field("year", 14, 15, FALSE) >>

male_groups ==
    << "male_under_10", "male_10_12", "male_13_14", "male_15", "male_16",
       "male_17", "male_18", "male_19", "male_20", "male_21", "male_22",
       "male_23", "male_24", "male_25_29", "male_30_34", "male_35_39",
       "male_40_44", "male_45_49", "male_50_54", "male_55_59", "male_60_64",
       "male_over_64" >>

\* g.replace('male', 'female') of a label that starts with its only 'male'
ReplaceMale(g) == "fe" \o g

female_groups == [j \in 1..Len(male_groups) |-> ReplaceMale(male_groups[j])]

juvenile_labels ==
    << "juvenile_white", "juvenile_black", "juvenile_indian", "juvenile_asian",
       "juvenile_hispanic", "juvenile_non_hispanic" >>

adult_labels ==
    << "adult_white", "adult_black", "adult_indian", "adult_asian",
       "adult_hispanic", "adult_non_hispanic" >>

\* the four loops of parse_asr_detail_record, in order
Groups == <<"male", "female", "juvenile", "adult">>

GroupLabels(g) ==
    CASE g = "male" -> male_groups
      [] g = "female" -> female_groups
      [] g = "juvenile" -> juvenile_labels
      [] g = "adult" -> adult_labels

\* the bases with the female base one column early
GroupBase_female_early(g) ==
    CASE g = "male" -> 41
      [] g = "female" -> 238
      [] g = "juvenile" -> 437
      [] g = "adult" -> 491

\* start = ... before each loop (lines 74, 81, 88, 95)
GroupBase(g) ==
    CASE g = "male" -> 41
      [] g = "female" -> 239
      [] g = "juvenile" -> 437
      [] g = "adult" -> 491

\* the loop body reading start..start+9, one column too many
LoopBody_wide(fr, l, name) ==
    LET val == slice1(l, fr.start, fr.start + 9)
        n == safe_int(val)
        rd == Append(fr.reads, <<fr.start, fr.start + 9>>)
    IN IF n.raised
       THEN [fr EXCEPT !.reads = rd, !.raised = TRUE]
       ELSE [fr EXCEPT !.rec = SetItem(fr.rec, name, n.val),
                       !.reads = rd,
                       !.start = fr.start + 9]

\* one iteration of a group loop: val = slice1(line, start, start+8);
\* rec[name] = safe_int(val); start += 9
LoopBody(fr, l, name) ==
    LET val == slice1(l, fr.start, fr.start + 8)
        n == safe_int(val)
        rd == Append(fr.reads, <<fr.start, fr.start + 8>>)
    IN IF n.raised
       THEN [fr EXCEPT !.reads = rd, !.raised = TRUE]
       ELSE [fr EXCEPT !.rec = SetItem(fr.rec, name, n.val),
                       !.reads = rd,
                       !.start = fr.start + 9]

RECURSIVE ForLoop(_, _, _)
ForLoop(fr, l, names) ==
    IF names = <<>> \/ fr.raised THEN fr
    ELSE ForLoop(LoopBody(fr, l, Head(names)), l, Tail(names))

RECURSIVE RunGroups(_, _, _)
RunGroups(fr, l, gs) ==
    IF gs = <<>> \/ fr.raised THEN fr
    ELSE RunGroups(ForLoop([fr EXCEPT !.start = GroupBase(Head(gs))], l,
                           GroupLabels(Head(gs))),
                   l, Tail(gs))

\* lines 52-53 and 105-106
PadRecord(t) == IF Len(t) < RECORD_LENGTH THEN ljust(t, RECORD_LENGTH) ELSE t

\* lines 55-67: the frame after the identity fields
DetailIdentity(l) == AssignFields(Frame(EmptyDict, 0, <<>>, FALSE), l, DetailFields)

\* the frame parse_asr_detail_record ends in: rec is returned unless raised
DetailFrame(t) ==
    LET l == PadRecord(t) IN RunGroups(DetailIdentity(l), l, Groups)

parse_asr_detail_record(t) ==
    LET fr == DetailFrame(t) IN [raised |-> fr.raised, rec |-> fr.rec]

parse_asr_header_record(t) ==
    LET l == PadRecord(t)
        fr == AssignFields(Frame(EmptyDict, 0, <<>>, FALSE), l, HeaderFields)
    IN SetItem(fr.rec, "raw_line", l)

(* ------------------ inputs --------------------------------------------- *)

\* t with tok written at 1-indexed position off, spaces filling any gap
Overlay(t, off, tok) ==
    [j \in 1..Max(Len(t), off + Len(tok) - 1) |->
        IF off <= j /\ j < off + Len(tok) THEN tok[j - off + 1]
        ELSE IF j <= Len(t) THEN t[j]
        ELSE " "]

\* all sequences over S of length at most n
RECURSIVE SeqsUpTo(_, _)
SeqsUpTo(S, n) ==
    IF n = 0 THEN {<<>>}
    ELSE LET shorter == SeqsUpTo(S, n - 1)
         IN shorter \cup {Append(t, c) : t \in {u \in shorter : Len(u) = n - 1}, c \in S}

\* columns 1-22 of a record: identifier, state, ORI, group, division, year,
\* MSA and the four indicators
IdentityColumns ==
    << "1", "5", "0", " ", "A", "B", "1", "2", "3", " ", "0", "1", "5",
       "2", "4", " ", "4", " ", "1", "0", "1", "0" >>

DetailText == IdentityColumns \o <<"0", "1", "1">>
HeaderText == IdentityColumns \o HEADER_OFFENSE_CODE

\* arguments of safe_int
SafeIntChars == {"0", "5", "-", "+", "_", " ", "a", SUP2}

SafeIntInputs ==
    SeqsUpTo(SafeIntChars, MaxLen)
        \cup { <<"0", "0", "0", "0", "1", "2", "3", "4">>,
               <<"1", "2", "a", "3", "4">>,
               <<" ", "1", "2", NL>> }

\* arguments of slice1
SliceLines == SeqsUpTo({"A", "B"}, MaxSliceLen)

\* contents of a 9-character count field
CountTokens ==
    { <<"0", "0", "0", "0", "0", "0", "0", "1", "2">>,
      <<" ", " ", " ", " ", " ", " ", "3", "4", "5">>,
      <<"1", "2", "a", "3", "4">>,
      <<" ", " ", " ", " ", " ", " ", " ", "-", "5">>,
      <<"7", SUP2>> }

\* where a token is written: the first and last field of each group, the
\* unread columns before the male group and after the adult group
TokenOffsets == {32, 41, 59, 230, 239, 428, 437, 482, 491, 536, 545}

\* the line of the repeated-group example: digit patterns at 41, 50, 59, 239
\* and 248 only
ExampleLine ==
    Overlay(Overlay(Overlay(Overlay(Overlay(<<>>,
        41, <<"0", "0", "0", "0", "0", "0", "0", "1", "1">>),
        50, <<"0", "0", "0", "0", "0", "0", "0", "2", "2">>),
        59, <<"0", "0", "0", "0", "0", "0", "0", "3", "3">>),
        239, <<"0", "0", "0", "0", "0", "0", "0", "4", "4">>),
        248, <<"0", "0", "0", "0", "0", "0", "0", "5", "5">>)

\* lines given to the two parsers: shorter than, as long as and longer than
\* RECORD_LENGTH
ParseLines ==
    { Overlay(base, off, tok) :
        base \in {DetailText, HeaderText, ljust(DetailText, RECORD_LENGTH + 9)},
        off \in TokenOffsets, tok \in CountTokens }
      \cup { ExampleLine, <<>>, <<"1", NL>>, DetailText, HeaderText,
             ljust(HeaderText, RECORD_LENGTH) }

\* the text of an input line, without its terminator
FileTexts ==
    { <<>>,
      Spaces(3),
      HeaderText,
      SubSeq(HeaderText, 1, 24),
      Overlay(DetailText, 41, <<"0", "0", "0", "0", "0", "0", "0", "1", "2">>),
      Overlay(ljust(DetailText, RECORD_LENGTH), 536, <<"3", "4", "5">>) \o <<"X">>,
      Overlay(DetailText, 41, <<"7", SUP2>>) }

\* iterating a text file yields each line with its "\n"; only the last line
\* of the file can lack it, and then it is not empty
TerminatedLines == {t \o <<NL>> : t \in FileTexts}
UnterminatedLines == FileTexts \ {<<>>}

Files ==
    UNION { { f \in [1..n -> TerminatedLines \cup UnterminatedLines] :
                \A j \in 1..(n - 1) : f[j] \in TerminatedLines } : n \in 0..MaxLines }

(* ------------------ state ---------------------------------------------- *)

\* the variables a specification does not use
IdleCall == s = <<>> /\ line = <<>> /\ a = 1 /\ b = 1 /\ out = <<>>
IdleParse == loc = <<>> /\ rec = EmptyDict /\ start = 0 /\ k = 0 /\ reads = <<>>
IdleFile ==
    /\ fh = <<>> /\ idx = 0 /\ detail_rows = <<>> /\ header_rows = <<>>
    /\ total_lines = 0 /\ calls = <<>>

(* ------------------ safe_int called on one string ---------------------- *)

InitSafeInt ==
    /\ pc = "call"
    /\ s \in SafeIntInputs
    /\ line = <<>> /\ a = 1 /\ b = 1 /\ out = <<>>
    /\ IdleParse /\ IdleFile

SafeIntCall ==
    /\ pc = "call"
    /\ LET r == safe_int(s)
       IN /\ pc' = IF r.raised THEN "raised" ELSE "return"
          /\ out' = IF r.raised THEN <<>> ELSE r.val
    /\ UNCHANGED <<s, line, a, b, parseVars, fileVars>>

NextSafeInt == SafeIntCall

SpecSafeInt == InitSafeInt /\ [][NextSafeInt]_vars

(* ------------------ slice1 called on one line -------------------------- *)

InitSlice ==
    /\ pc = "call"
    /\ line \in SliceLines
    /\ a \in 1..(MaxSliceLen + 2)
    /\ b \in a..(MaxSliceLen + 2)
    /\ s = <<>> /\ out = <<>>
    /\ IdleParse /\ IdleFile

Slice1Call ==
    /\ pc = "call"
    /\ pc' = "return"
    /\ out' = slice1(line, a, b)
    /\ UNCHANGED <<s, line, a, b, parseVars, fileVars>>

NextSlice == Slice1Call

SpecSlice == InitSlice /\ [][NextSlice]_vars

(* ------------------ the parsers called on one line --------------------- *)

InitParse ==
    /\ pc = "call"
    /\ line \in ParseLines
    /\ s = <<>> /\ a = 1 /\ b = 1 /\ out = <<>>
    /\ IdleParse /\ IdleFile

\* parse_asr_header_record(line), lines 104-115
CallHeader ==
    /\ pc = "call"
    /\ pc' = "header_return"
    /\ out' = parse_asr_header_record(line)
    /\ UNCHANGED <<s, line, a, b, parseVars, fileVars>>

\* parse_asr_detail_record(line) up to the first loop, lines 51-74
EnterDetail ==
    /\ pc = "call"
    /\ LET fr == DetailIdentity(PadRecord(line))
       IN /\ loc' = PadRecord(line)
          /\ rec' = fr.rec
          /\ reads' = fr.reads
          /\ start' = GroupBase(Groups[1])
          /\ k' = 0
          /\ pc' = Groups[1]
    /\ UNCHANGED <<s, line, a, b, out, fileVars>>

GroupIndex(g) == CHOOSE j \in 1..Len(Groups) : Groups[j] = g

\* one iteration of the running loop
LoopIter ==
    /\ pc \in {Groups[j] : j \in 1..Len(Groups)}
    /\ k < Len(GroupLabels(pc))
    /\ LET fr == LoopBody(Frame(rec, start, reads, FALSE), loc, GroupLabels(pc)[k + 1])
       IN /\ rec' = fr.rec
          /\ start' = fr.start
          /\ reads' = fr.reads
          /\ k' = k + 1
          /\ pc' = IF fr.raised THEN "raised" ELSE pc
    /\ UNCHANGED <<s, line, a, b, out, loc, fileVars>>

\* the running loop ends: the next loop's start is set, or rec is returned
LoopExit ==
    /\ pc \in {Groups[j] : j \in 1..Len(Groups)}
    /\ k = Len(GroupLabels(pc))
    /\ IF GroupIndex(pc) < Len(Groups)
       THEN /\ pc' = Groups[GroupIndex(pc) + 1]
            /\ start' = GroupBase(Groups[GroupIndex(pc) + 1])
            /\ k' = 0
            /\ out' = out
       ELSE /\ pc' = "return"
            /\ out' = rec
            /\ UNCHANGED <<start, k>>
    /\ UNCHANGED <<s, line, a, b, loc, rec, reads, fileVars>>

NextParse == CallHeader \/ EnterDetail \/ LoopIter \/ LoopExit

SpecParse == InitParse /\ [][NextParse]_vars

(* ------------------ process_file (lines 119-143) ----------------------- *)

\* lines 131 and 134-135: raw.rstrip(''), then padded when short
StrippedLine(raw) == rstrip_chars(raw, {})

PaddedLine(raw) ==
    IF Len(StrippedLine(raw)) < RECORD_LENGTH
    THEN ljust(StrippedLine(raw), RECORD_LENGTH)
    ELSE StrippedLine(raw)

\* the blank test without .strip(): only the empty string is blank
IsBlank_empty_only(raw) == StrippedLine(raw) = <<>>

\* line 132
IsBlank(raw) == strip(StrippedLine(raw)) = <<>>

\* the offense code read one column early
IsHeader_early(l) == slice1(l, 22, 24) = HEADER_OFFENSE_CODE

\* lines 136-137
IsHeader(l) == slice1(l, 23, 25) = HEADER_OFFENSE_CODE

Init ==
    /\ pc = "loop"
    /\ fh \in Files
    /\ idx = 0 /\ detail_rows = <<>> /\ header_rows = <<>>
    /\ total_lines = 0 /\ calls = <<>>
    /\ IdleCall /\ IdleParse

\* a blank line: counted, then skipped
SkipBlank ==
    /\ pc = "loop" /\ idx < Len(fh)
    /\ IsBlank(fh[idx + 1])
    /\ total_lines' = total_lines + 1
    /\ idx' = idx + 1
    /\ UNCHANGED <<pc, s, line, a, b, out, parseVars, fh, detail_rows, header_rows, calls>>

\* a line whose offense code is the sentinel
AppendHeader ==
    /\ pc = "loop" /\ idx < Len(fh)
    /\ ~IsBlank(fh[idx + 1])
    /\ LET l == PaddedLine(fh[idx + 1])
       IN /\ IsHeader(l)
          /\ calls' = Append(calls, [callee |-> "parse_asr_header_record", arg |-> l])
          /\ header_rows' = Append(header_rows, parse_asr_header_record(l))
    /\ total_lines' = total_lines + 1
    /\ idx' = idx + 1
    /\ UNCHANGED <<pc, s, line, a, b, out, parseVars, fh, detail_rows>>

\* any other line: its record is appended, or the decoder's exception ends
\* process_file
AppendDetail ==
    /\ pc = "loop" /\ idx < Len(fh)
    /\ ~IsBlank(fh[idx + 1])
    /\ LET l == PaddedLine(fh[idx + 1])
           r == parse_asr_detail_record(l)
       IN /\ ~IsHeader(l)
          /\ calls' = Append(calls, [callee |-> "parse_asr_detail_record", arg |-> l])
          /\ IF r.raised
             THEN pc' = "raised" /\ UNCHANGED <<idx, detail_rows>>
             ELSE /\ detail_rows' = Append(detail_rows, r.rec)
                  /\ idx' = idx + 1
                  /\ pc' = pc
    /\ total_lines' = total_lines + 1
    /\ UNCHANGED <<s, line, a, b, out, parseVars, fh, header_rows>>

\* line 143
Return ==
    /\ pc = "loop" /\ idx = Len(fh)
    /\ pc' = "return"
    /\ out' = <<detail_rows, header_rows>>
    /\ UNCHANGED <<s, line, a, b, parseVars, fileVars>>

Next == SkipBlank \/ AppendHeader \/ AppendDetail \/ Return

Spec == Init /\ [][Next]_vars

(* ====================== claims ========================================= *)

(* ------------------ safe_int (SpecSafeInt) ----------------------------- *)

C4_NeverRaises ==
    pc # "call" =>
        /\ pc = "return"
        /\ strip(s) = <<>> => out = 0
        /\ int(strip(s)).raised =>
              out = DecValue(SelectSeq(strip(s), LAMBDA ch : ch \in DecimalDigits))

(* ------------------ slice1 (SpecSlice) --------------------------------- *)

\* C5: for 1 <= a <= b, slice1(line, a, b) returns exactly b-a+1 characters,
\* character i being character a+i-1 of the line where the line has one and a
\* space elsewhere, and the caller's line is unchanged by the call.
C5_SliceShape ==
    [][(pc = "call" /\ pc' = "return") =>
          /\ line' = line
          /\ Len(out') = b - a + 1
          /\ \A i \in 1..(b - a + 1) :
                out'[i] = IF a + i - 1 <= Len(line) THEN line[a + i - 1] ELSE " "]_vars

C5_Witness ==
    /\ pc = "return" /\ a <= Len(line) /\ Len(line) < b /\ Len(out) = b - a + 1

(* ------------------ the parsers (SpecParse) ---------------------------- *)

\* the characters at 1-indexed positions x..y of t right-padded to
\* RECORD_LENGTH
Columns(t, x, y) == SubSeq(ljust(t, RECORD_LENGTH), x, y)

Range(f) == {f[x] : x \in DOMAIN f}

IdentityNames ==
    { "identifier", "state_code", "ori_code", "group", "division", "year", "msa",
      "card1_indicator_adult_male", "card2_indicator_adult_female",
      "card3_indicator_juvenile", "adjustment", "offense_code" }

\* the four groups as the layout documents them: labels and base offset
LayoutGroups ==
    { [labels |-> male_groups, base |-> 41],
      [labels |-> female_groups, base |-> 239],
      [labels |-> juvenile_labels, base |-> 437],
      [labels |-> adult_labels, base |-> 491] }

CountNames == UNION {Range(g.labels) : g \in LayoutGroups}

ExampleCounts ==
    [n \in CountNames |->
        CASE n = "male_under_10" -> 11
          [] n = "male_10_12" -> 22
          [] n = "male_13_14" -> 33
          [] n = "female_under_10" -> 44
          [] n = "female_10_12" -> 55
          [] OTHER -> 0]

\* C2: a returned detail record holds exactly 56 count fields; the k-th label
\* (from 0) of the group with base B holds safe_int of columns B+9k..B+9k+8 of
\* the padded line; the example line decodes to its five values and 0 in
\* every other count field.
C2_CountFields ==
    pc = "return" =>
        /\ Cardinality(CountNames) = 56
        /\ Len(male_groups) = 22 /\ Len(female_groups) = 22
        /\ Len(juvenile_labels) = 6 /\ Len(adult_labels) = 6
        /\ DOMAIN out = IdentityNames \cup CountNames
        /\ \A g \in LayoutGroups : \A j \in 0..(Len(g.labels) - 1) :
              out[g.labels[j + 1]] =
                  safe_int(Columns(line, g.base + 9 * j, g.base + 9 * j + 8)).val
        /\ line = ExampleLine => \A n \in CountNames : out[n] = ExampleCounts[n]

C2_Witness ==
    /\ pc = "return" /\ line = ExampleLine /\ out["male_13_14"] = 33
    /\ out["female_10_12"] = 55

\* C6, as stated: the header record holds identifier, state code, trimmed ORI
\* code, group, division, year and trimmed MSA code (16-18), plus raw_line,
\* and nothing else.
C6_HeaderHasMsa ==
    pc = "header_return" =>
        /\ DOMAIN out = { "identifier", "state_code", "ori_code", "group",
                         "division", "year", "msa", "raw_line" }
        /\ out["msa"] = strip(Columns(line, 16, 18))

\* C6, amended: the header record holds identifier (1), state code (2-3),
\* trimmed ORI code (4-10), group (11-12), division (13) and year (14-15), each
\* as the detail layout places it, plus raw_line holding the padded line
\* verbatim, and nothing else: the MSA code is not decoded.
C6_HeaderFields ==
    pc = "header_return" =>
        /\ DOMAIN out = { "identifier", "state_code", "ori_code", "group",
                         "division", "year", "raw_line" }
        /\ out["identifier"] = Columns(line, 1, 1)
        /\ out["state_code"] = Columns(line, 2, 3)
        /\ out["ori_code"] = strip(Columns(line, 4, 10))
        /\ out["group"] = Columns(line, 11, 12)
        /\ out["division"] = Columns(line, 13, 13)
        /\ out["year"] = Columns(line, 14, 15)
        /\ out["raw_line"] = ljust(line, RECORD_LENGTH)
        /\ \A n \in DOMAIN out \ {"raw_line"} : out[n] = DetailIdentity(PadRecord(line)).rec[n]

C6_Witness ==
    /\ pc = "header_return" /\ line = HeaderText
    /\ out["ori_code"] = <<"A", "B", "1", "2", "3">>
    /\ Len(out["raw_line"]) = RECORD_LENGTH

\* C7: on a line shorter than RECORD_LENGTH both decoders succeed, and each
\* returns the record it returns for the line right-padded to RECORD_LENGTH.
C7_ShortLineAsPadded ==
    (pc \in {"return", "raised", "header_return"} /\ Len(line) < RECORD_LENGTH) =>
        /\ pc # "raised"
        /\ pc = "return" =>
              /\ ~parse_asr_detail_record(ljust(line, RECORD_LENGTH)).raised
              /\ out = parse_asr_detail_record(ljust(line, RECORD_LENGTH)).rec
        /\ pc = "header_return" =>
              out = parse_asr_header_record(ljust(line, RECORD_LENGTH))

\* C10: the ranges parse_asr_detail_record reads do not overlap, ascend and
\* lie in 1..RECORD_LENGTH; the twelve identity fields cover 1-25; in each
\* group every field is 9 wide and follows the previous one without a gap;
\* the running offset is 239 after the male loop, 437 after the female loop,
\* 491 after the juvenile loop and 545 after the adult loop.
C10_ReadLayout ==
    /\ \A j \in 1..Len(reads) :
          1 <= reads[j][1] /\ reads[j][1] <= reads[j][2] /\ reads[j][2] <= RECORD_LENGTH
    /\ \A j \in 1..(Len(reads) - 1) : reads[j][2] < reads[j + 1][1]
    /\ Len(reads) >= 12 =>
          /\ reads[1][1] = 1 /\ reads[12][2] = 25
          /\ \A j \in 1..11 : reads[j + 1][1] = reads[j][2] + 1
    /\ \A j \in 13..Len(reads) : reads[j][2] = reads[j][1] + 8
    /\ \A j \in 13..(Len(reads) - 1) :
          reads[j + 1][1] = reads[j][2] + 1
             \/ j \in {12 + 22, 12 + 44, 12 + 50}
    /\ (pc = "male" /\ k = 22) => start = 239
    /\ (pc = "female" /\ k = 22) => start = 437
    /\ (pc = "juvenile" /\ k = 6) => start = 491
    /\ (pc = "adult" /\ k = 6) => start = 545
    /\ (pc = "return" /\ reads # <<>>) => start = 545 /\ Len(reads) = 12 + 56

C10_Witness ==
    /\ pc = "return" /\ Len(reads) = 68 /\ start = 545 /\ reads[68] = <<536, 544>>

(* ------------------ process_file (Spec) -------------------------------- *)

\* an input line that is empty or all whitespace
AllWhitespace(raw) == \A j \in 1..Len(raw) : raw[j] \in Whitespace

\* the lines of t that are not all whitespace, in order
RECURSIVE NonBlank(_)
NonBlank(t) ==
    IF t = <<>> THEN <<>>
    ELSE IF AllWhitespace(Head(t)) THEN NonBlank(Tail(t))
    ELSE <<Head(t)>> \o NonBlank(Tail(t))

\* the lines whose iteration has completed
Consumed == SubSeq(fh, 1, idx)

\* characters 23-25 of the line, padded when short, are the sentinel
SentinelAt(l) == SubSeq(ljust(l, RECORD_LENGTH), 23, 25) = HEADER_OFFENSE_CODE

\* the records the header lines, or the detail lines, of t decode to, in order
RECURSIVE DecodedHeaders(_)
DecodedHeaders(t) ==
    IF t = <<>> THEN <<>>
    ELSE IF SentinelAt(Head(t))
         THEN <<parse_asr_header_record(Head(t))>> \o DecodedHeaders(Tail(t))
         ELSE DecodedHeaders(Tail(t))

RECURSIVE DecodedDetails(_)
DecodedDetails(t) ==
    IF t = <<>> THEN <<>>
    ELSE IF ~SentinelAt(Head(t))
         THEN <<parse_asr_detail_record(Head(t)).rec>> \o DecodedDetails(Tail(t))
         ELSE DecodedDetails(Tail(t))

IsPrefix(u, v) == Len(u) <= Len(v) /\ u = SubSeq(v, 1, Len(u))

\* C1: every non-blank line, padded, goes to the header decoder exactly when
\* its characters 23-25 equal HEADER_OFFENSE_CODE and to the detail decoder
\* otherwise; so no detail record has the sentinel as offense_code and every
\* header record's raw_line has the sentinel at 23-25.
C1_Routing ==
    /\ \A j \in 1..Len(calls) :
          /\ Len(calls[j].arg) >= RECORD_LENGTH
          /\ calls[j].callee \in {"parse_asr_header_record", "parse_asr_detail_record"}
          /\ calls[j].callee = "parse_asr_header_record"
                <=> SubSeq(calls[j].arg, 23, 25) = HEADER_OFFENSE_CODE
    /\ Len(calls) = Len(NonBlank(SubSeq(fh, 1, total_lines)))
    /\ \A j \in 1..Len(detail_rows) :
          detail_rows[j]["offense_code"] # HEADER_OFFENSE_CODE
    /\ \A j \in 1..Len(header_rows) :
          SubSeq(header_rows[j]["raw_line"], 23, 25) = HEADER_OFFENSE_CODE

C1_Witness ==
    /\ pc = "return" /\ Len(detail_rows) = 1 /\ Len(header_rows) = 1
    /\ detail_rows[1]["offense_code"] = <<"0", "1", "1">>

Text(raw) == rstrip_chars(raw, {NL})

\* C9: a line whose text is shorter than RECORD_LENGTH is classified and
\* decoded as that text right-padded with spaces; the terminator is in no
\* decoded field, in no offense-code comparison and in no raw_line.
C9_TerminatorRemoved ==
    /\ \A j \in 1..Len(calls) :
          LET text == Text(NonBlank(fh)[j])
          IN Len(text) < RECORD_LENGTH => calls[j].arg = ljust(text, RECORD_LENGTH)
    /\ \A j \in 1..Len(header_rows) : NL \notin Range(header_rows[j]["raw_line"])
    /\ \A j \in 1..Len(detail_rows) : \A n \in IdentityNames :
          NL \notin Range(detail_rows[j][n])

====
